---- MODULE Spec2Model ----
(***************************************************************************)
(* A model of package procfs (procfs_linux.go): PKill, PidOf, getPids,     *)
(* GetFullContainerName and containerNameFromProcCgroup.                   *)
(*                                                                         *)
(* Text (Go string and []byte) is a sequence of one-character strings.     *)
(* Three specifications share the variables:                                *)
(*   Spec        one call of PKill or PidOf over a process table,           *)
(*   MatchSpec   the selection of one process by PidOf and by PKill,        *)
(*   CgroupSpec  one call of GetFullContainerName.                          *)
(***************************************************************************)
EXTENDS Integers, Sequences, FiniteSets, TLC

VARIABLES
    procDir,    \* the entries of /proc, in directory-enumeration order
    op,         \* the public operation called: "none", "PKill", "PidOf"
    name,       \* its name argument
    re,         \* the expression of the compiled regexp
    pc,         \* position of the call: idle, open, readdir, kill, done
    fd,         \* dirFD: "none", "open", "closed"
    fdPos,      \* number of entries dirFD has returned so far
    batches,    \* number of Readdir calls that returned entries
    closes,     \* number of dirFD.Close() calls
    badReads,   \* number of Readdir calls made on a dirFD that is not open
    pids,       \* getPids' local pids
    scanned,    \* what getPids returned to its caller
    aborted,    \* whether getPids returned nil on a root-level failure
    ki,         \* PKill: index of the next pid of the range loop
    errmsgs,    \* PKill's errmsgs
    killLog,    \* the pids syscall.Kill was called with, in call order
    failLog,    \* the error texts syscall.Kill returned, in call order
    retErr,     \* the error returned by the operation
    retPids,    \* the pid list returned by PidOf
    mName,      \* MatchSpec: the literal name
    mTok,       \* MatchSpec: the first command-line token of the process
    mPidOf,     \* MatchSpec: "unset", "selected" or "rejected" by PidOf(mName)
    mPKill,     \* MatchSpec: "unset", "selected" or "rejected" by PKill(mName)
    cgPid,      \* CgroupSpec: the pid argument
    content,    \* CgroupSpec: the text of /proc/<pid>/cgroup
    cgPc,       \* CgroupSpec: "start", "done"
    cgRead,     \* CgroupSpec: how ioutil.ReadFile ended: "", "ok", "notexist", "error"
    cgName,     \* CgroupSpec: the string GetFullContainerName returned
    cgErr       \* CgroupSpec: the error GetFullContainerName returned

scanVars == <<procDir, op, name, re, pc, fd, fdPos, batches, closes, badReads, pids,
              scanned, aborted, ki, errmsgs, killLog, failLog, retErr, retPids>>
matchVars == <<mName, mTok, mPidOf, mPKill>>
cgVars == <<cgPid, content, cgPc, cgRead, cgName, cgErr>>
vars == <<scanVars, matchVars, cgVars>>

-----------------------------------------------------------------------------
(* Bounds of the model. *)

\* longest process table
MaxEntries == 3
\* longest literal name drawn in MatchSpec
MaxNameLen == 2
\* longest first token drawn in MatchSpec
MaxTokLen == 3
\* most lines of a cgroup file
MaxLines == 2

-----------------------------------------------------------------------------
(* Text helpers: package strings, bytes, strconv, unicode, fmt. *)

\* the byte 0
NUL == "NUL"
\* the backquote character
BQ == "BQ"

\* all sequences over S of length lo..hi
SeqsOf(S, lo, hi) == UNION {[1..n -> S] : n \in lo..hi}

\* index of the first occurrence of character c in s, 0 when there is none
IndexByte(s, c) ==
    IF \E i \in 1..Len(s) : s[i] = c
    THEN CHOOSE i \in 1..Len(s) : s[i] = c /\ \A j \in 1..(i-1) : s[j] # c
    ELSE 0

\* strings.SplitN / bytes.SplitN with a one-character separator; n < 0 is
\* strings.Split (no limit)
RECURSIVE SplitN(_, _, _)
SplitN(s, sep, n) ==
    IF n = 0 THEN <<>>
    ELSE IF n = 1 \/ IndexByte(s, sep) = 0 THEN <<s>>
    ELSE LET i == IndexByte(s, sep)
         IN  <<SubSeq(s, 1, i-1)>> \o SplitN(SubSeq(s, i+1, Len(s)), sep, n-1)

\* strings.Join
RECURSIVE Join(_, _)
Join(elems, sep) ==
    IF Len(elems) = 0 THEN <<>>
    ELSE IF Len(elems) = 1 THEN elems[1]
    ELSE elems[1] \o sep \o Join(Tail(elems), sep)

\* unicode.IsSpace on the characters the model draws
IsSpace(c) == c \in {" ", "\t", "\n", "\r", "\f"}

\* strings.TrimSpace
RECURSIVE TrimSpace(_)
TrimSpace(s) ==
    IF Len(s) = 0 THEN s
    ELSE IF IsSpace(s[1]) THEN TrimSpace(Tail(s))
    ELSE IF IsSpace(s[Len(s)]) THEN TrimSpace(SubSeq(s, 1, Len(s)-1))
    ELSE s

\* the separator function getPids passes to strings.FieldsFunc
IsExeSep(c) == IsSpace(c) \/ c = ":"

\* strings.FieldsFunc(s, IsExeSep): the maximal runs of non-separators.
\* cur is the field being read (<<>> between fields), acc the fields so far.
RECURSIVE FieldsFrom(_, _, _, _)
FieldsFrom(s, i, cur, acc) ==
    IF i > Len(s) THEN (IF cur = <<>> THEN acc ELSE Append(acc, cur))
    ELSE IF IsExeSep(s[i])
         THEN FieldsFrom(s, i+1, <<>>, IF cur = <<>> THEN acc ELSE Append(acc, cur))
         ELSE FieldsFrom(s, i+1, Append(cur, s[i]), acc)

FieldsFunc(s) == FieldsFrom(s, 1, <<>>, <<>>)

Digits == {"0", "1", "2", "3", "4", "5", "6", "7", "8", "9"}

DigitVal(c) ==
    CASE c = "0" -> 0 [] c = "1" -> 1 [] c = "2" -> 2 [] c = "3" -> 3
      [] c = "4" -> 4 [] c = "5" -> 5 [] c = "6" -> 6 [] c = "7" -> 7
      [] c = "8" -> 8 [] c = "9" -> 9

RECURSIVE DecimalValue(_, _)
DecimalValue(s, acc) ==
    IF Len(s) = 0 THEN acc ELSE DecimalValue(Tail(s), 10 * acc + DigitVal(s[1]))

\* strconv.Atoi: an optional sign, then one or more decimal digits (names
\* here are far shorter than the 19 digits at which int overflows)
Atoi(s) ==
    LET signed == Len(s) > 0 /\ s[1] \in {"+", "-"}
        body   == IF signed THEN Tail(s) ELSE s
    IN  IF Len(body) > 0 /\ \A i \in 1..Len(body) : body[i] \in Digits
        THEN [ok |-> TRUE,
              val |-> IF signed /\ s[1] = "-" THEN 0 - DecimalValue(body, 0)
                      ELSE DecimalValue(body, 0)]
        ELSE [ok |-> FALSE, val |-> 0]

\* strconv.Quote, the %q verb: printable ASCII is copied, the double quote
\* and the backslash are escaped
RECURSIVE QuoteBody(_)
QuoteBody(s) ==
    IF Len(s) = 0 THEN <<>>
    ELSE (IF s[1] \in {"\"", "\\"} THEN <<"\\", s[1]>> ELSE <<s[1]>>)
         \o QuoteBody(Tail(s))

Quote(s) == <<"\"">> \o QuoteBody(s) \o <<"\"">>

\* fmt.Sprintf(format, a...) for string operands a: text is copied, %% is a
\* percent sign, %s and %q format the next operand, a verb with no operand
\* left is reported as missing, another verb as a bad verb. (Flags, widths
\* and the report of unused operands are not modelled: no format of this
\* package has them.)
RECURSIVE Sprintf(_, _)
Sprintf(format, a) ==
    IF Len(format) = 0 THEN <<>>
    ELSE IF format[1] # "%" THEN <<format[1]>> \o Sprintf(Tail(format), a)
    ELSE IF Len(format) = 1 THEN <<"%","!","(","N","O","V","E","R","B",")">>
    ELSE LET verb == format[2]
             rest == SubSeq(format, 3, Len(format))
         IN  IF verb = "%" THEN <<"%">> \o Sprintf(rest, a)
             ELSE IF Len(a) = 0
                  THEN <<"%","!">> \o <<verb>> \o <<"(","M","I","S","S","I","N","G",")">>
                       \o Sprintf(rest, a)
             ELSE IF verb = "s" THEN a[1] \o Sprintf(rest, Tail(a))
             ELSE IF verb = "q" THEN Quote(a[1]) \o Sprintf(rest, Tail(a))
             ELSE <<"%","!">> \o <<verb>> \o <<"(","s","t","r","i","n","g","=">> \o a[1] \o <<")">>
                  \o Sprintf(rest, Tail(a))

\* an error value: nil, or an error with its Error() text
NilErr == [nil |-> TRUE, msg |-> <<>>]
ErrorOf(text) == [nil |-> FALSE, msg |-> text]

\* fmt.Errorf
Errorf(format, a) == ErrorOf(Sprintf(format, a))

\* strconv.Itoa of a natural number
RECURSIVE Itoa(_)
Itoa(n) ==
    LET d == CHOOSE c \in Digits : DigitVal(c) = n % 10
    IN  IF n < 10 THEN <<d>> ELSE Itoa(n \div 10) \o <<d>>

-----------------------------------------------------------------------------
(* package regexp, for the expressions PKill and PidOf build from the      *)
(* names the model draws: literals, groups, alternation, ^ and $.          *)

ReLit(c) == [t |-> "lit", c |-> c, xs |-> <<>>]
ReBol == [t |-> "bol", c |-> "", xs |-> <<>>]
ReEol == [t |-> "eol", c |-> "", xs |-> <<>>]
ReCat(xs) == [t |-> "cat", c |-> "", xs |-> xs]
ReAlt(xs) == [t |-> "alt", c |-> "", xs |-> xs]

ParseOk(node, pos) == [ok |-> TRUE, node |-> node, pos |-> pos, err |-> <<>>]
ParseErr(code) == [ok |-> FALSE, node |-> ReCat(<<>>), pos |-> 0, err |-> code]

\* The parser reads expr from position i (the number of characters consumed).
RECURSIVE ParseAlt(_, _, _), ParseCat(_, _, _)

ParseAtom(expr, i) ==
    LET c == expr[i+1]
    IN  IF c = "("
        THEN LET g == ParseAlt(expr, i+1, <<>>)
             IN  IF ~g.ok THEN g
                 ELSE IF g.pos < Len(expr) /\ expr[g.pos+1] = ")"
                      THEN ParseOk(g.node, g.pos+1)
                      ELSE ParseErr(<<"m","i","s","s","i","n","g"," ","c","l","o","s","i","n","g"," ",")">>)
        ELSE IF c = "^" THEN ParseOk(ReBol, i+1)
        ELSE IF c = "$" THEN ParseOk(ReEol, i+1)
        ELSE ParseOk(ReLit(c), i+1)

ParseCat(expr, i, acc) ==
    IF i = Len(expr) \/ expr[i+1] \in {"|", ")"}
    THEN ParseOk(ReCat(acc), i)
    ELSE LET a == ParseAtom(expr, i)
         IN  IF ~a.ok THEN a ELSE ParseCat(expr, a.pos, Append(acc, a.node))

ParseAlt(expr, i, acc) ==
    LET b == ParseCat(expr, i, <<>>)
    IN  IF ~b.ok THEN b
        ELSE IF b.pos < Len(expr) /\ expr[b.pos+1] = "|"
             THEN ParseAlt(expr, b.pos+1, Append(acc, b.node))
             ELSE ParseOk(ReAlt(Append(acc, b.node)), b.pos)

\* regexp.Compile: the parsed expression, or the syntax error
Compile(expr) ==
    LET r == ParseAlt(expr, 0, <<>>)
    IN  IF ~r.ok THEN r
        ELSE IF r.pos < Len(expr) THEN ParseErr(<<"u","n","e","x","p","e","c","t","e","d"," ",")">>)
        ELSE r

\* syntax.Error.Error()
CompileErrorText(code, expr) ==
    <<"e","r","r","o","r"," ","p","a","r","s","i","n","g"," ","r","e","g","e","x","p",":"," ">> \o code \o <<":"," ">> \o <<BQ>> \o expr \o <<BQ>>

\* the positions at which a match of node that starts at position i of s ends
RECURSIVE Ends(_, _, _), CatEnds(_, _, _)
Ends(node, s, i) ==
    CASE node.t = "lit" -> IF i < Len(s) /\ s[i+1] = node.c THEN {i+1} ELSE {}
      [] node.t = "bol" -> IF i = 0 THEN {i} ELSE {}
      [] node.t = "eol" -> IF i = Len(s) THEN {i} ELSE {}
      [] node.t = "cat" -> CatEnds(node.xs, s, {i})
      [] node.t = "alt" -> UNION {Ends(node.xs[k], s, i) : k \in 1..Len(node.xs)}

CatEnds(xs, s, from) ==
    IF Len(xs) = 0 THEN from
    ELSE CatEnds(Tail(xs), s, UNION {Ends(xs[1], s, i) : i \in from})

\* Regexp.MatchString: the expression matches somewhere in s
MatchString(expr, s) ==
    LET r == Compile(expr)
    IN  \E i \in 0..Len(s) : Ends(r.node, s, i) # {}

-----------------------------------------------------------------------------
(* getPids: one entry of the range loop over a batch. *)

\* a directory entry of /proc: its name, whether it is a directory, whether
\* /proc/<name>/cmdline can be read, and the bytes of that file
Entry(nm, isDir, readable, cmdline) ==
    [name |-> nm, isDir |-> isDir, readable |-> readable, cmdline |-> cmdline]

\* the body of "for _, entry := range ls": the pid appended, if any
ProcessEntry(entry, expr) ==
    IF ~entry.isDir THEN <<>>
    ELSE IF ~Atoi(entry.name).ok THEN <<>>
    ELSE IF ~entry.readable THEN <<>>
    ELSE LET parts == SplitN(entry.cmdline, NUL, 2)
         IN  IF Len(parts) = 0 THEN <<>>
             ELSE LET exe == FieldsFunc(parts[1])
                  IN  IF Len(exe) = 0 THEN <<>>
                      ELSE IF MatchString(expr, exe[1])
                           THEN <<Atoi(entry.name).val>>
                           ELSE <<>>

RECURSIVE ProcessBatch(_, _)
ProcessBatch(ls, expr) ==
    IF Len(ls) = 0 THEN <<>>
    ELSE ProcessEntry(ls[1], expr) \o ProcessBatch(Tail(ls), expr)

\* PidOf anchors the name without its trailing "$"
PidOfPattern_NoEnd(nm) == <<"(","^","|","/",")">> \o nm

\* the expression PidOf compiles
PidOfPattern(nm) == <<"(","^","|","/",")">> \o nm \o <<"$">>

\* the expression PKill compiles: the name as given
PKillPattern(nm) == nm

-----------------------------------------------------------------------------
(* MatchSpec: which process a literal name selects. *)

NameAlphabet == {"a", "b", "/"}
TokAlphabet == {"a", "b", "/", "-"}

\* a process whose command line is the token followed by one argument
ProcessOf(tok) == Entry(<<"7">>, TRUE, TRUE, tok \o <<NUL>> \o <<"-","g">> \o <<NUL>>)

MatchInit ==
    /\ mName \in SeqsOf(NameAlphabet, 1, MaxNameLen)
    /\ mTok \in SeqsOf(TokAlphabet, 1, MaxTokLen)
    /\ mPidOf = "unset"
    /\ mPKill = "unset"
    /\ procDir = <<>>
    /\ op = "none"
    /\ name = <<>>
    /\ re = <<>>
    /\ pc = "idle"
    /\ fd = "none"
    /\ fdPos = 0
    /\ batches = 0
    /\ closes = 0
    /\ badReads = 0
    /\ pids = <<>>
    /\ scanned = <<>>
    /\ aborted = FALSE
    /\ ki = 1
    /\ errmsgs = <<>>
    /\ killLog = <<>>
    /\ failLog = <<>>
    /\ retErr = NilErr
    /\ retPids = <<>>
    /\ cgPid = 1
    /\ content = <<>>
    /\ cgPc = "start"
    /\ cgRead = ""
    /\ cgName = <<>>
    /\ cgErr = NilErr

\* PidOf(mName) scans the process
MatchPidOf ==
    /\ mPidOf = "unset"
    /\ mPidOf' = IF ProcessEntry(ProcessOf(mTok), PidOfPattern(mName)) # <<>>
                 THEN "selected" ELSE "rejected"
    /\ UNCHANGED <<scanVars, cgVars, mName, mTok, mPKill>>

\* PKill(mName) scans the process
MatchPKill ==
    /\ mPKill = "unset"
    /\ mPKill' = IF ProcessEntry(ProcessOf(mTok), PKillPattern(mName)) # <<>>
                 THEN "selected" ELSE "rejected"
    /\ UNCHANGED <<scanVars, cgVars, mName, mTok, mPidOf>>

MatchNext ==
    \/ MatchPidOf
    \/ MatchPKill

MatchSpec == MatchInit /\ [][MatchNext]_vars

-----------------------------------------------------------------------------
(* Spec: one call of PKill or PidOf. *)

\* entries /proc can hold
ProcEntries ==
    { Entry(<<"1">>, TRUE, TRUE, <<"/","a",NUL,"-","b",NUL>>),
      Entry(<<"2">>, TRUE, TRUE, <<"a","b",NUL>>),
      Entry(<<"3">>, TRUE, FALSE, <<>>),
      Entry(<<"4">>, TRUE, TRUE, <<" ","a",":","b",NUL>>),
      Entry(<<"5">>, TRUE, TRUE, <<>>),
      Entry(<<"1","2">>, TRUE, TRUE, <<"b",NUL>>),
      Entry(<<"s","e","l","f">>, TRUE, TRUE, <<"a",NUL>>),
      Entry(<<"u","p","t","i","m","e">>, FALSE, FALSE, <<>>) }

\* the process tables: entries of a directory have distinct names
ProcTables ==
    { t \in SeqsOf(ProcEntries, 0, MaxEntries) :
        \A i, j \in 1..Len(t) : i # j => t[i].name # t[j].name }

\* the names PKill and PidOf are called with
ScanNames == { <<>>, <<"(">>, <<"a">>, <<"b">> }

\* the texts of the errors syscall.Kill returns: ESRCH, EPERM and EINVAL
KillErrors ==
    { <<"n","o"," ","s","u","c","h"," ","p","r","o","c","e","s","s">>, <<"o","p","e","r","a","t","i","o","n"," ","n","o","t"," ","p","e","r","m","i","t","t","e","d">>, <<"i","n","v","a","l","i","d"," ","a","r","g","u","m","e","n","t">> }

\* Readdir(10)
ReaddirCount == 10

Init ==
    /\ procDir \in ProcTables
    /\ op = "none"
    /\ name = <<>>
    /\ re = <<>>
    /\ pc = "idle"
    /\ fd = "none"
    /\ fdPos = 0
    /\ batches = 0
    /\ closes = 0
    /\ badReads = 0
    /\ pids = <<>>
    /\ scanned = <<>>
    /\ aborted = FALSE
    /\ ki = 1
    /\ errmsgs = <<>>
    /\ killLog = <<>>
    /\ failLog = <<>>
    /\ retErr = NilErr
    /\ retPids = <<>>
    /\ mName = <<>>
    /\ mTok = <<>>
    /\ mPidOf = "unset"
    /\ mPKill = "unset"
    /\ cgPid = 1
    /\ content = <<>>
    /\ cgPc = "start"
    /\ cgRead = ""
    /\ cgName = <<>>
    /\ cgErr = NilErr

\* PKill(nm, sig) up to the call of getPids
CallPKill(nm) ==
    /\ pc = "idle"
    /\ op' = "PKill"
    /\ name' = nm
    /\ IF Len(nm) = 0
       THEN /\ retErr' = Errorf(<<"n","a","m","e"," ","s","h","o","u","l","d"," ","n","o","t"," ","b","e"," ","e","m","p","t","y">>, <<>>)
            /\ pc' = "done"
            /\ re' = re
       ELSE IF ~Compile(PKillPattern(nm)).ok
       THEN /\ retErr' = ErrorOf(CompileErrorText(Compile(PKillPattern(nm)).err,
                                                  PKillPattern(nm)))
            /\ pc' = "done"
            /\ re' = re
       ELSE /\ re' = PKillPattern(nm)
            /\ pc' = "open"
            /\ retErr' = retErr
    /\ UNCHANGED <<matchVars, cgVars, procDir, fd, fdPos, batches, closes, badReads, pids, scanned,
                   aborted, ki, errmsgs, killLog, failLog, retPids>>

\* PidOf(nm) up to the call of getPids
CallPidOf(nm) ==
    /\ pc = "idle"
    /\ op' = "PidOf"
    /\ name' = nm
    /\ IF Len(nm) = 0
       THEN /\ retErr' = Errorf(<<"n","a","m","e"," ","s","h","o","u","l","d"," ","n","o","t"," ","b","e"," ","e","m","p","t","y">>, <<>>)
            /\ pc' = "done"
            /\ re' = re
       ELSE IF ~Compile(PidOfPattern(nm)).ok
       THEN /\ retErr' = ErrorOf(CompileErrorText(Compile(PidOfPattern(nm)).err,
                                                  PidOfPattern(nm)))
            /\ pc' = "done"
            /\ re' = re
       ELSE /\ re' = PidOfPattern(nm)
            /\ pc' = "open"
            /\ retErr' = retErr
    /\ UNCHANGED <<matchVars, cgVars, procDir, fd, fdPos, batches, closes, badReads, pids, scanned,
                   aborted, ki, errmsgs, killLog, failLog, retPids>>

\* PKill goes on to signal even when getPids found nothing
Returned_NoEmptyCheck(result, isAbort) ==
    /\ scanned' = result
    /\ aborted' = isAbort
    /\ IF op = "PidOf"
       THEN /\ retPids' = result
            /\ retErr' = NilErr
            /\ pc' = "done"
       ELSE /\ pc' = "kill"
            /\ UNCHANGED <<retErr, retPids>>
    /\ ki' = 1

\* getPids returns result to its caller: PidOf returns it with a nil error,
\* PKill fails when it is empty and otherwise enters its loop over the pids
Returned(result, isAbort) ==
    /\ scanned' = result
    /\ aborted' = isAbort
    /\ IF op = "PidOf"
       THEN /\ retPids' = result
            /\ retErr' = NilErr
            /\ pc' = "done"
       ELSE IF Len(result) = 0
       THEN /\ retErr' = Errorf(<<"u","n","a","b","l","e"," ","t","o"," ","f","e","t","c","h"," ","p","i","d","s"," ","f","o","r"," ","p","r","o","c","e","s","s"," ","n","a","m","e"," ",":"," ","%","q">>,
                                <<name>>)
            /\ pc' = "done"
            /\ retPids' = retPids
       ELSE /\ pc' = "kill"
            /\ UNCHANGED <<retErr, retPids>>
    /\ ki' = 1

\* os.Open("/proc") succeeds; the Close is deferred
OpenOk ==
    /\ pc = "open"
    /\ fd' = "open"
    /\ pc' = "readdir"
    /\ UNCHANGED <<matchVars, cgVars, procDir, op, name, re, fdPos, batches, closes, badReads, pids,
                   scanned, aborted, ki, errmsgs, killLog, failLog, retErr,
                   retPids>>

\* os.Open("/proc") fails: getPids returns nil
OpenFail ==
    /\ pc = "open"
    /\ Returned(<<>>, TRUE)
    /\ UNCHANGED <<matchVars, cgVars, procDir, op, name, re, fd, fdPos, batches, closes, badReads,
                   pids, errmsgs, killLog, failLog>>

\* the range loop that keeps only the first entry of each batch
ProcessLs_FirstOnly(ls, expr) ==
    IF Len(ls) = 0 THEN <<>> ELSE ProcessEntry(ls[1], expr)

\* the range loop over one batch ls: the pids it appends
ProcessLs(ls, expr) == ProcessBatch(ls, expr)

\* dirFD.Readdir(10) returns the next k entries, at most 10, and the loop
\* over them runs
ReaddirBatch(k) ==
    /\ pc = "readdir"
    /\ fdPos + k <= Len(procDir)
    /\ badReads' = IF fd = "open" THEN badReads ELSE badReads + 1
    /\ pids' = pids \o ProcessLs(SubSeq(procDir, fdPos + 1, fdPos + k), re)
    /\ fdPos' = fdPos + k
    /\ batches' = batches + 1
    /\ UNCHANGED <<matchVars, cgVars, procDir, op, name, re, pc, fd, closes, scanned, aborted, ki,
                   errmsgs, killLog, failLog, retErr, retPids>>

\* a failed Readdir returns the matches found so far
GetPidsReadError_Partial ==
    /\ pc = "readdir"
    /\ badReads' = IF fd = "open" THEN badReads ELSE badReads + 1
    /\ Returned(pids, TRUE)
    /\ fd' = "closed"
    /\ closes' = closes + 1
    /\ UNCHANGED <<matchVars, cgVars, procDir, op, name, re, fdPos, batches, pids, errmsgs, killLog,
                   failLog>>

\* a failed Readdir returns without the deferred Close
GetPidsReadError_NoClose ==
    /\ pc = "readdir"
    /\ badReads' = IF fd = "open" THEN badReads ELSE badReads + 1
    /\ Returned(<<>>, TRUE)
    /\ UNCHANGED <<matchVars, cgVars, procDir, op, name, re, fd, fdPos, batches, closes, pids,
                   errmsgs, killLog, failLog>>

\* dirFD.Readdir(10) fails with an error other than io.EOF: getPids returns
\* nil, and the deferred dirFD.Close() runs
GetPidsReadError ==
    /\ pc = "readdir"
    /\ badReads' = IF fd = "open" THEN badReads ELSE badReads + 1
    /\ Returned(<<>>, TRUE)
    /\ fd' = "closed"
    /\ closes' = closes + 1
    /\ UNCHANGED <<matchVars, cgVars, procDir, op, name, re, fdPos, batches, pids, errmsgs, killLog,
                   failLog>>

\* dirFD.Readdir(10) returns io.EOF: the loop ends, getPids returns pids, and
\* the deferred dirFD.Close() runs
GetPidsEOF ==
    /\ pc = "readdir"
    /\ fdPos = Len(procDir)
    /\ badReads' = IF fd = "open" THEN badReads ELSE badReads + 1
    /\ Returned(pids, FALSE)
    /\ fd' = "closed"
    /\ closes' = closes + 1
    /\ UNCHANGED <<matchVars, cgVars, procDir, op, name, re, fdPos, batches, pids, errmsgs, killLog,
                   failLog>>

\* every failure message is kept
AddMsg_NoDedup(msgs, msg) == Append(msgs, msg)

\* PKill lines 89-96: msg is appended unless errmsgs already holds it
AddMsg(msgs, msg) ==
    IF \E i \in 1..Len(msgs) : msgs[i] = msg THEN msgs ELSE Append(msgs, msg)

\* the loop ends at the first failed delivery
AfterKill_StopOnError(err) == IF err.nil THEN ki + 1 ELSE Len(scanned) + 1

\* the range loop goes on to the next pid whatever syscall.Kill returned
AfterKill(err) == ki + 1

\* one iteration of PKill's loop: syscall.Kill(pid, sig) returns err
Kill(err) ==
    /\ pc = "kill"
    /\ ki <= Len(scanned)
    /\ killLog' = Append(killLog, scanned[ki])
    /\ IF err.nil
       THEN UNCHANGED <<errmsgs, failLog>>
       ELSE /\ errmsgs' = AddMsg(errmsgs, err.msg)
            /\ failLog' = Append(failLog, [pid |-> scanned[ki], msg |-> err.msg])
    /\ ki' = AfterKill(err)
    /\ UNCHANGED <<matchVars, cgVars, procDir, op, name, re, pc, fd, fdPos, batches, closes, badReads,
                   pids, scanned, aborted, retErr, retPids>>

\* only the first message is returned
PKillResult_FirstOnly(msgs) ==
    IF Len(msgs) > 0 THEN Errorf(msgs[1], <<>>) ELSE NilErr

\* PKill lines 99-106: the error built from errmsgs
PKillResult(msgs) ==
    LET numErrors == Len(msgs)
    IN  IF numErrors > 0
        THEN IF numErrors = 1
             THEN Errorf(msgs[1], <<>>)
             ELSE Errorf(<<"["," ","%","s"," ","]">>, <<Join(msgs, <<",">>)>>)
        ELSE NilErr

\* PKill's loop has ended: it returns
PKillReturn ==
    /\ pc = "kill"
    /\ ki > Len(scanned)
    /\ retErr' = PKillResult(errmsgs)
    /\ pc' = "done"
    /\ UNCHANGED <<matchVars, cgVars, procDir, op, name, re, fd, fdPos, batches, closes, badReads,
                   pids, scanned, aborted, ki, errmsgs, killLog, failLog, retPids>>

Next ==
    \/ (\E nm \in ScanNames : CallPKill(nm))
    \/ (\E nm \in ScanNames : CallPidOf(nm))
    \/ OpenOk
    \/ OpenFail
    \/ (\E k \in 1..ReaddirCount : ReaddirBatch(k))
    \/ GetPidsReadError
    \/ GetPidsEOF
    \/ (\E t \in KillErrors : Kill(ErrorOf(t)))
    \/ Kill(NilErr)
    \/ PKillReturn

Spec == Init /\ [][Next]_vars

-----------------------------------------------------------------------------
(* CgroupSpec: one call of GetFullContainerName. *)

\* the fields of a line, with no limit on their number
CgroupFields_NoLimit(line) == SplitN(line, ":", 0 - 1)

\* strings.SplitN(line, ":", 3)
CgroupFields(line) == SplitN(line, ":", 3)

\* the range loop of containerNameFromProcCgroup over lines
RECURSIVE DevicesOf(_)
DevicesOf(lines) ==
    IF Len(lines) = 0
    THEN [name |-> <<>>,
          err |-> Errorf(<<"c","o","u","l","d"," ","n","o","t"," ","f","i","n","d"," ","d","e","v","i","c","e","s"," ","c","g","r","o","u","p"," ","l","o","c","a","t","i","o","n">>, <<>>)]
    ELSE LET entries == CgroupFields(lines[1])
         IN  IF Len(entries) = 3 /\ entries[2] = <<"d","e","v","i","c","e","s">>
             THEN [name |-> TrimSpace(entries[3]), err |-> NilErr]
             ELSE DevicesOf(Tail(lines))

containerNameFromProcCgroup(text) == DevicesOf(SplitN(text, "\n", 0 - 1))

\* lines a cgroup file can hold
CgroupLines ==
    { <<"4",":","d","e","v","i","c","e","s",":","/","d","o","c","k","e","r","/","n","g","i","n","x">>,
      <<"6",":","d","e","v","i","c","e","s",":","/","z">>,
      <<"5",":","d","e","v","i","c","e","s",":"," ","/","a",":","b"," ">>,
      <<"3",":","d","e","v","i","c","e","s",",","c","p","u",":","/","x">>,
      <<"2",":","x","d","e","v","i","c","e","s",":","/","y">>,
      <<"1",":","d","e","v","i","c","e","s">>,
      <<"0",":",":","/","i","n","i","t",".","s","c","o","p","e">>,
      <<>> }

CgroupContents == { Join(ls, <<"\n">>) : ls \in SeqsOf(CgroupLines, 0, MaxLines) }

CgroupInit ==
    /\ cgPid \in {1, 42}
    /\ content \in CgroupContents
    /\ cgPc = "start"
    /\ cgRead = ""
    /\ cgName = <<>>
    /\ cgErr = NilErr
    /\ procDir = <<>>
    /\ op = "none"
    /\ name = <<>>
    /\ re = <<>>
    /\ pc = "idle"
    /\ fd = "none"
    /\ fdPos = 0
    /\ batches = 0
    /\ closes = 0
    /\ badReads = 0
    /\ pids = <<>>
    /\ scanned = <<>>
    /\ aborted = FALSE
    /\ ki = 1
    /\ errmsgs = <<>>
    /\ killLog = <<>>
    /\ failLog = <<>>
    /\ retErr = NilErr
    /\ retPids = <<>>
    /\ mName = <<>>
    /\ mTok = <<>>
    /\ mPidOf = "unset"
    /\ mPKill = "unset"

\* path.Join("/proc", strconv.Itoa(pid), "cgroup")
CgroupPath(pid) == <<"/","p","r","o","c","/">> \o Itoa(pid) \o <<"/","c","g","r","o","u","p">>

\* ioutil.ReadFile fails because the file does not exist: os.ErrNotExist
ReadNotExist ==
    /\ cgPc = "start"
    /\ cgRead' = "notexist"
    /\ cgName' = <<>>
    /\ cgErr' = ErrorOf(<<"f","i","l","e"," ","d","o","e","s"," ","n","o","t"," ","e","x","i","s","t">>)
    /\ cgPc' = "done"
    /\ UNCHANGED <<scanVars, matchVars, cgPid, content>>

\* ioutil.ReadFile fails otherwise: its error is returned as it is
ReadError ==
    /\ cgPc = "start"
    /\ cgRead' = "error"
    /\ cgName' = <<>>
    /\ cgErr' = ErrorOf(<<"o","p","e","n"," ">> \o CgroupPath(cgPid) \o <<":"," ","p","e","r","m","i","s","s","i","o","n"," ","d","e","n","i","e","d">>)
    /\ cgPc' = "done"
    /\ UNCHANGED <<scanVars, matchVars, cgPid, content>>

\* ioutil.ReadFile succeeds and the content is parsed
ReadOk ==
    /\ cgPc = "start"
    /\ cgRead' = "ok"
    /\ cgName' = containerNameFromProcCgroup(content).name
    /\ cgErr' = containerNameFromProcCgroup(content).err
    /\ cgPc' = "done"
    /\ UNCHANGED <<scanVars, matchVars, cgPid, content>>

CgroupNext ==
    \/ ReadNotExist
    \/ ReadError
    \/ ReadOk

CgroupSpec == CgroupInit /\ [][CgroupNext]_vars

-----------------------------------------------------------------------------
(* Properties of PKill, PidOf and getPids, checked under Spec. *)

HasPrefix(s, prefix) == Len(s) >= Len(prefix) /\ SubSeq(s, 1, Len(prefix)) = prefix

HasSuffix(s, suffix) ==
    Len(s) >= Len(suffix) /\ SubSeq(s, Len(s) - Len(suffix) + 1, Len(s)) = suffix

Contains(s, sub) ==
    \E i \in 0..(Len(s) - Len(sub)) : SubSeq(s, i+1, i+Len(sub)) = sub

\* the call passed validation and compilation, and getPids has returned
ScanReturned == re # <<>> /\ pc \in {"kill", "done"}

\* the error PKill returns when the scan found no pid
IsNoMatch(err) ==
    /\ ~err.nil
    /\ HasPrefix(err.msg, <<"u","n","a","b","l","e"," ","t","o"," ","f","e","t","c","h"," ","p","i","d","s"," ","f","o","r"," ","p","r","o","c","e","s","s"," ","n","a","m","e"," ",":"," ">>)

\* C1: PKill attempts a delivery exactly once for every scanned pid, in scan
\* order, whatever the earlier deliveries returned, and returns only after
\* the last attempt.
KillAttemptsFollowScan ==
    op = "PKill" =>
        /\ Len(killLog) <= Len(scanned)
        /\ killLog = SubSeq(scanned, 1, Len(killLog))
        /\ (pc = "done" /\ Len(scanned) >= 1) => killLog = scanned

\* PKill has returned after three attempts of which the first failed
KillAttemptsWitness ==
    /\ op = "PKill"
    /\ pc = "done"
    /\ Len(killLog) = 3
    /\ Len(failLog) >= 1
    /\ failLog[1].pid = scanned[1]

\* the distinct texts of a log of failures, in the order of their first
\* occurrence
RECURSIVE FirstOccurrences(_)
FirstOccurrences(log) ==
    IF Len(log) = 0 THEN <<>>
    ELSE LET front == SubSeq(log, 1, Len(log) - 1)
             last  == log[Len(log)].msg
         IN  IF \E j \in 1..Len(front) : front[j].msg = last
             THEN FirstOccurrences(front)
             ELSE Append(FirstOccurrences(front), last)

\* the texts of ms with sep between neighbours
RECURSIVE Separated(_, _)
Separated(ms, sep) ==
    IF Len(ms) = 0 THEN <<>>
    ELSE IF Len(ms) = 1 THEN ms[1]
    ELSE Separated(SubSeq(ms, 1, Len(ms) - 1), sep) \o sep \o ms[Len(ms)]

\* what PKill returns for the distinct failure messages ms when the
\* aggregate joins them with sep
ResultFor(ms, sep) ==
    IF Len(ms) = 0 THEN NilErr
    ELSE IF Len(ms) = 1 THEN ErrorOf(ms[1])
    ELSE ErrorOf(<<"["," ">> \o Separated(ms, sep) \o <<" ","]">>)

\* C2, as amended: after all attempts PKill returns nil for no failure
\* message, the message itself for one, and for more the distinct messages
\* joined with "," (a comma and no space) between "[ " and " ]".
PKillResultJoinsWithComma ==
    (op = "PKill" /\ pc = "done" /\ Len(scanned) >= 1) =>
        retErr = ResultFor(FirstOccurrences(failLog), <<",">>)

\* C2, as claimed: the distinct messages are joined with ", " (a comma and a
\* space).
PKillResultJoinsWithCommaSpace ==
    (op = "PKill" /\ pc = "done" /\ Len(scanned) >= 1) =>
        retErr = ResultFor(FirstOccurrences(failLog), <<","," ">>)

\* PKill has returned the aggregate of three distinct messages
PKillResultWitness ==
    /\ op = "PKill"
    /\ pc = "done"
    /\ Len(errmsgs) = 3
    /\ HasPrefix(retErr.msg, <<"["," ">>)
    /\ HasSuffix(retErr.msg, <<" ","]">>)

\* C3: errmsgs never holds a text twice, lists the distinct failure texts in
\* the order of their first occurrence, and is as long as the number of
\* distinct failure texts seen.
ErrmsgsAreFirstOccurrences ==
    op = "PKill" =>
        /\ errmsgs = FirstOccurrences(failLog)
        /\ \A i, j \in 1..Len(errmsgs) : errmsgs[i] = errmsgs[j] => i = j
        /\ Len(errmsgs) = Cardinality({failLog[i].msg : i \in 1..Len(failLog)})

\* two distinct pids failed with the same text, with another text between
ErrmsgsWitness ==
    /\ Len(failLog) = 3
    /\ failLog[1].msg = failLog[3].msg
    /\ failLog[1].pid # failLog[3].pid
    /\ failLog[1].msg # failLog[2].msg
    /\ Len(errmsgs) = 2

\* C4: when the scan yields no pid, PKill returns the no-match error and
\* signals nothing, and PidOf returns an empty list and no error.
NoPidsResult ==
    (ScanReturned /\ pc = "done" /\ Len(scanned) = 0) =>
        /\ op = "PKill" => IsNoMatch(retErr) /\ killLog = <<>>
        /\ op = "PidOf" => retErr = NilErr /\ retPids = <<>>

\* PKill has returned after a complete scan of processes that matched none
NoPidsWitness ==
    /\ op = "PKill"
    /\ ScanReturned
    /\ pc = "done"
    /\ ~aborted
    /\ scanned = <<>>
    /\ \E i \in 1..Len(procDir) : procDir[i].readable /\ Len(procDir[i].cmdline) > 0

\* the first token of a command line: of the bytes before the first 0 byte,
\* the first maximal run of characters that are neither white space nor ":"
FirstToken(cmdline) ==
    LET z     == IndexByte(cmdline, NUL)
        head  == IF z = 0 THEN cmdline ELSE SubSeq(cmdline, 1, z - 1)
        inTok == {i \in 1..Len(head) : ~IsExeSep(head[i])}
    IN  IF inTok = {} THEN <<>>
        ELSE LET first == CHOOSE i \in inTok : \A j \in inTok : i <= j
                 stop  == CHOOSE i \in first..Len(head) :
                              /\ \A j \in first..i : j \in inTok
                              /\ (i < Len(head) => (i + 1) \notin inTok)
             IN  SubSeq(head, first, stop)

\* the entry is a directory with a numeric name and a readable command line
\* whose first token the expression matches
Eligible(entry, expr) ==
    /\ entry.isDir
    /\ Len(entry.name) > 0
    /\ \A i \in 1..Len(entry.name) : entry.name[i] \in Digits
    /\ entry.readable
    /\ FirstToken(entry.cmdline) # <<>>
    /\ MatchString(expr, FirstToken(entry.cmdline))

\* the pids of the eligible entries of a table, in table order
RECURSIVE EligiblePids(_, _)
EligiblePids(table, expr) ==
    IF Len(table) = 0 THEN <<>>
    ELSE LET front == EligiblePids(SubSeq(table, 1, Len(table) - 1), expr)
             last  == table[Len(table)]
         IN  IF Eligible(last, expr)
             THEN Append(front, DecimalValue(last.name, 0))
             ELSE front

\* C5: when no root-level read fails, getPids returns exactly the pids of the
\* eligible entries, in directory order, however the entries fall into
\* batches; an entry with an unreadable command line is skipped.
ScanReturnsEligiblePids ==
    (ScanReturned /\ ~aborted) => scanned = EligiblePids(procDir, re)

\* a scan in two batches or more returned the pids on both sides of an entry
\* whose command line cannot be read
ScanWitness ==
    /\ ScanReturned
    /\ ~aborted
    /\ batches >= 2
    /\ Len(procDir) = 3
    /\ procDir[2].isDir /\ ~procDir[2].readable
    /\ Len(scanned) = 2

\* C6: when /proc cannot be opened or a batch read fails, getPids returns no
\* pid at all; PidOf then returns the empty list and no error, and PKill the
\* no-match error without signalling.
AbortedScanReturnsNothing ==
    (ScanReturned /\ aborted) =>
        /\ scanned = <<>>
        /\ pc = "done"
        /\ op = "PidOf" => retErr = NilErr /\ retPids = <<>>
        /\ op = "PKill" => IsNoMatch(retErr) /\ killLog = <<>>

\* a batch read failed after earlier batches had produced matches
AbortedScanWitness ==
    /\ ScanReturned
    /\ aborted
    /\ op = "PKill"
    /\ fd = "closed"
    /\ Len(pids) >= 1

\* C10: a scan that opened /proc closes the handle exactly once before it
\* returns, on every exit path, and never reads the handle once it is
\* closed.
HandleClosedOnce ==
    /\ closes <= 1
    /\ badReads = 0
    /\ fd = "none" => closes = 0
    /\ fd = "open" => closes = 0 /\ pc = "readdir"
    /\ (ScanReturned /\ fd # "none") => fd = "closed" /\ closes = 1

\* a scan has returned on the early abort of a failed batch read, after a
\* batch was read
HandleClosedWitness ==
    /\ ScanReturned
    /\ aborted
    /\ batches >= 1
    /\ fd = "closed"
    /\ closes = 1

-----------------------------------------------------------------------------
(* Properties of the selection by name, checked under MatchSpec. *)

\* C7: for a literal name n, PidOf(n) selects a process iff its first
\* command-line token equals n or ends with "/" followed by n, and PKill(n)
\* selects it iff the token contains n anywhere.
LiteralNameSelection ==
    /\ mPidOf # "unset" =>
           (mPidOf = "selected"
                <=> (mTok = mName \/ HasSuffix(mTok, <<"/">> \o mName)))
    /\ mPKill # "unset" => (mPKill = "selected" <=> Contains(mTok, mName))

\* a token that starts with the name and goes on: PKill selects the process
\* and PidOf does not
LiteralNameSelectionWitness ==
    /\ mPidOf = "rejected"
    /\ mPKill = "selected"
    /\ Len(mTok) > Len(mName)
    /\ HasPrefix(mTok, mName)

-----------------------------------------------------------------------------
(* Properties of GetFullContainerName, checked under CgroupSpec. *)

\* the positions that end a line of text: each "\n", and the end of the text
LineEnds(text) == {i \in 1..Len(text) : text[i] = "\n"} \cup {Len(text) + 1}

\* the line of text that ends at position e
LineEndingAt(text, e) ==
    LET before == {i \in LineEnds(text) : i < e}
        start  == IF before = {} THEN 1
                  ELSE 1 + CHOOSE i \in before : \A j \in before : j <= i
    IN  SubSeq(text, start, e - 1)

\* the position of the second ":" of a line, 0 when it has fewer than two
SecondColon(line) ==
    LET c1 == IndexByte(line, ":")
    IN  IF c1 = 0 \/ IndexByte(SubSeq(line, c1 + 1, Len(line)), ":") = 0 THEN 0
        ELSE c1 + IndexByte(SubSeq(line, c1 + 1, Len(line)), ":")

\* the line has three fields and its middle field is exactly "devices"
IsDevicesLine(line) ==
    /\ SecondColon(line) > 0
    /\ SubSeq(line, IndexByte(line, ":") + 1, SecondColon(line) - 1) = <<"d","e","v","i","c","e","s">>

\* s without its leading and trailing white space
Trimmed(s) ==
    LET solid == {i \in 1..Len(s) : ~IsSpace(s[i])}
    IN  IF solid = {} THEN <<>>
        ELSE SubSeq(s, CHOOSE i \in solid : \A j \in solid : i <= j,
                       CHOOSE i \in solid : \A j \in solid : j <= i)

\* C8: a text with the line "4:devices:/docker/nginx" parses to
\* "docker/nginx".
DockerNginxLineYieldsName ==
    (/\ cgRead = "ok"
     /\ \E e \in LineEnds(content) :
            LineEndingAt(content, e) = <<"4",":","d","e","v","i","c","e","s",":","/","d","o","c","k","e","r","/","n","g","i","n","x">>)
        => cgName = <<"d","o","c","k","e","r","/","n","g","i","n","x">>

====
